---- MODULE Spec2Model ----
(***************************************************************************)
(* Model of the EtabExtension persistence core:                            *)
(*   ext-core  Project::new                                                *)
(*   ext-error AppError and its Display                                    *)
(*   ext-db    Database::{save_project, load_project, list_projects}       *)
(*   ext-api   AppState::{create_project, get_projects} behind one Mutex   *)
(*   ext-tauri the command surface that forwards to AppState               *)
(*                                                                         *)
(* Text is modelled as sequences: a uuid prints as two hex digits, a       *)
(* string is a sequence of characters, a timestamp prints as the triple    *)
(* (seconds, number of fraction digits, fraction) chosen by chrono's       *)
(* AutoSi rule.  The projects root is a function from entry names to what  *)
(* is on disk under that name.                                             *)
(***************************************************************************)
EXTENDS Integers, Sequences, FiniteSets, TLC

(* ------------------------------ bounds -------------------------------- *)

\* number of concurrently running command tasks
NumTasks == 2
\* total number of commands the UI invokes in one behaviour
MaxCalls == 3
\* size of the modelled uuid space (the real one has 2^122 values)
NumUuids == 2
\* longest name / description in the storage round-trip specification
MaxTextLen == 2

Tasks == 1..NumTasks
Uuids == 1..NumUuids

(* ------------------------------ ext-error ----------------------------- *)

\* AppError: a variant tag and a message
Database(msg) == [variant |-> "Database", message |-> msg]
Validation(msg) == [variant |-> "Validation", message |-> msg]
NotFound(msg) == [variant |-> "NotFound", message |-> msg]
Internal(msg) == [variant |-> "Internal", message |-> msg]
Etabs(msg) == [variant |-> "Etabs", message |-> msg]

\* #[error("...: {0}")] -- the Display prefix of each variant
DisplayPrefix(variant) ==
    CASE variant = "Database" -> "Database error: "
      [] variant = "Validation" -> "Validation error: "
      [] variant = "NotFound" -> "Not found: "
      [] variant = "Internal" -> "Internal error: "
      [] variant = "Etabs" -> "ETABS error: "

\* e.to_string(): prefix followed by the message; the variant tag is gone
ToStringErr(e) == <<DisplayPrefix(e.variant), e.message>>

Ok(v) == [ok |-> TRUE, value |-> v]
Err(e) == [ok |-> FALSE, error |-> e]

(* ------------------------------ text forms ---------------------------- *)

\* characters are character codes: '"' = 34, '\' = 92, 'a' = 97, 'x' = 120
Chars == {34, 92, 97}

\* lower-case hex digit of a value 0..15 ('0' = 48, 'a' = 97)
HexChar(d) == IF d < 10 THEN 48 + d ELSE 87 + d
IsHexChar(c) == c \in 48..57 \/ c \in 97..102
HexVal(c) == IF c \in 48..57 THEN c - 48 ELSE c - 87

\* Uuid::to_string, on an 8-bit picture of the 128-bit value: two hex digits
UuidToString(u) == <<HexChar(u \div 16), HexChar(u % 16)>>

\* Uuid's Deserialize: the text must be hex digits of the full width
UuidParses(s) == Len(s) = 2 /\ \A i \in 1..2 : IsHexChar(s[i])
ParseUuid(s) == HexVal(s[1]) * 16 + HexVal(s[2])

Pow10(n) == CASE n = 0 -> 1 [] n = 3 -> 1000 [] n = 6 -> 1000000 [] n = 9 -> 1000000000

\* chrono SecondsFormat::AutoSi: 0, 3, 6 or 9 fraction digits, the fewest
\* that print the nanoseconds exactly
AutoSiDigits(nanos) ==
    IF nanos = 0 THEN 0
    ELSE IF nanos % 1000000 = 0 THEN 3
    ELSE IF nanos % 1000 = 0 THEN 6
    ELSE 9

\* a plausible slip: always print milliseconds (SecondsFormat::Millis)
ToRfc3339Millis(t) ==
    [secs |-> t.secs, digits |-> 3, frac |-> t.nanos \div 1000000]

\* DateTime<Utc>::to_rfc3339
ToRfc3339(t) ==
    [secs |-> t.secs,
     digits |-> AutoSiDigits(t.nanos),
     frac |-> t.nanos \div Pow10(9 - AutoSiDigits(t.nanos))]

\* DateTime<Utc>'s Deserialize (RFC 3339 text back to seconds + nanoseconds)
ParseRfc3339(x) ==
    [secs |-> x.secs, nanos |-> x.frac * Pow10(9 - x.digits)]

RECURSIVE JsonEscape(_)
\* serde_json string writer: quote and backslash get a backslash in front
JsonEscape(s) ==
    IF s = <<>> THEN <<>>
    ELSE (IF Head(s) \in {34, 92} THEN <<92, Head(s)>> ELSE <<Head(s)>>)
         \o JsonEscape(Tail(s))

RECURSIVE JsonUnescape(_)
\* serde_json string reader: a backslash stands for the character after it
JsonUnescape(s) ==
    IF s = <<>> THEN <<>>
    ELSE IF Head(s) = 92 /\ Len(s) >= 2
         THEN <<s[2]>> \o JsonUnescape(Tail(Tail(s)))
         ELSE <<Head(s)>> \o JsonUnescape(Tail(s))

(* ------------------------------ ext-core ------------------------------ *)

\* a plausible slip: the two text arguments land in each other's field
ProjectNewSwapped(id, name, description, now) ==
    [id |-> id, name |-> description, description |-> name,
     created_at |-> now, updated_at |-> now]

\* Project::new, given the uuid and the clock reading it draws
ProjectNew(id, name, description, now) ==
    [id |-> id, name |-> name, description |-> description,
     created_at |-> now, updated_at |-> now]

\* Uuid::new_v4: the values the generator can return after `used` were drawn
\* (a 122-bit random value: one never drawn before)
NewV4(used) == Uuids \ used

(* ------------------------------ the disk ------------------------------ *)

Keys == {"id", "name", "description", "created_at", "updated_at"}

NoDoc ==
    [id |-> <<>>, name |-> <<>>, description |-> <<>>,
     created_at |-> [secs |-> 0, digits |-> 0, frac |-> 0],
     updated_at |-> [secs |-> 0, digits |-> 0, frac |-> 0]]

\* project.json: absent, or a text that is complete (closed) or cut short,
\* holding some of the keys, and that the process can or cannot read
NoFile == [exists |-> FALSE, readable |-> TRUE, closed |-> FALSE, fields |-> {}, doc |-> NoDoc]
TextFile(doc) == [exists |-> TRUE, readable |-> TRUE, closed |-> TRUE, fields |-> Keys, doc |-> doc]

\* an entry of the projects root: nothing, a plain file, or a directory
Absent == [kind |-> "absent", json |-> NoFile]
PlainFile == [kind |-> "file", json |-> NoFile]
Dir(f) == [kind |-> "dir", json |-> f]

\* a name in the projects root that is no uuid text ('x')
JunkName == <<120>>
EntryNames == {UuidToString(u) : u \in Uuids} \cup {JunkName}

EntryAt(d, n) == IF n \in DOMAIN d THEN d[n] ELSE Absent

(* ------------------------------ ext-db -------------------------------- *)

\* a path that does not depend on the project
ProjectPathShared(p) == UuidToString(1)

\* projects_dir.join(project.id.to_string()): the entry a project lives in
ProjectPath(p) == UuidToString(p.id)

\* serde_json::json!({...}): the five values put under the five keys
Metadata(p) ==
    [id |-> UuidToString(p.id),
     name |-> p.name,
     description |-> p.description,
     created_at |-> ToRfc3339(p.created_at),
     updated_at |-> ToRfc3339(p.updated_at)]

\* serde_json::to_string_pretty: every string value is written escaped
ToStringPretty(m) ==
    [id |-> JsonEscape(m.id),
     name |-> JsonEscape(m.name),
     description |-> JsonEscape(m.description),
     created_at |-> m.created_at,
     updated_at |-> m.updated_at]

\* fs::create_dir_all on an entry of the projects root.  io is what the
\* operating system does to the call: "ok" or "fail".
CreateDirAll(d, n, io) ==
    IF io = "fail" \/ EntryAt(d, n).kind = "file"
    THEN [disk |-> d,
          result |-> Err(Database("Failed to create project directory"))]
    ELSE [disk |-> IF EntryAt(d, n).kind = "dir" THEN d
                   ELSE [d EXCEPT ![n] = Dir(NoFile)],
          result |-> Ok("unit")]

\* a failed write that nevertheless left the whole text in place
WriteOutcomeWhole(old, text, io) == TextFile(text)

\* what fs::write leaves in project.json: the text ("ok"), the file as it
\* was (the open failed, "fail_open"), or a text cut short ("fail_partial")
WriteOutcome(old, text, io) ==
    CASE io = "ok" -> TextFile(text)
      [] io = "fail_open" -> old
      [] io = "fail_partial" -> [TextFile(text) EXCEPT !.closed = FALSE]

\* fs::write(project_path.join("project.json"), text)
WriteFile(d, n, text, io) ==
    [disk |-> [d EXCEPT ![n] = Dir(WriteOutcome(d[n].json, text, io))],
     result |-> IF io = "ok" THEN Ok("unit")
                ELSE Err(Database("Failed to write project file"))]

\* Project's Deserialize on the text of project.json: the text must be a
\* complete JSON value holding the five keys, the id a uuid
ParsesAsProject(f) ==
    f.closed /\ f.fields = Keys /\ UuidParses(JsonUnescape(f.doc.id))

FromStr(f) ==
    [id |-> ParseUuid(JsonUnescape(f.doc.id)),
     name |-> JsonUnescape(f.doc.name),
     description |-> JsonUnescape(f.doc.description),
     created_at |-> ParseRfc3339(f.doc.created_at),
     updated_at |-> ParseRfc3339(f.doc.updated_at)]

\* a loader that reports a missing project.json as NotFound
LoadProjectNotFound(d, project_id) ==
    LET e == EntryAt(d, project_id) IN
    IF ~(e.kind = "dir" /\ e.json.exists) THEN Err(NotFound("Project not found"))
    ELSE IF ~e.json.readable
         THEN Err(Database("Failed to read project file"))
    ELSE IF ~ParsesAsProject(e.json)
         THEN Err(Database("Failed to parse project"))
    ELSE Ok(<<FromStr(e.json)>>)

\* Database::load_project.  Ok(<<>>) is Ok(None), Ok(<<p>>) is Ok(Some(p)).
LoadProject(d, project_id) ==
    LET e == EntryAt(d, project_id) IN
    IF ~(e.kind = "dir" /\ e.json.exists) THEN Ok(<<>>)
    ELSE IF ~e.json.readable
         THEN Err(Database("Failed to read project file"))
    ELSE IF ~ParsesAsProject(e.json)
         THEN Err(Database("Failed to parse project"))
    ELSE Ok(<<FromStr(e.json)>>)

\* fs::read_dir: the names present in the projects root
ReadDir(d) == {n \in DOMAIN d : d[n].kind # "absent"}

\* a listing that gives up on the first entry that does not load
ListStepStrict(d, projects, n) ==
    LET r == LoadProject(d, n) IN
    IF ~r.ok THEN r
    ELSE Ok(projects \o r.value)

\* one turn of list_projects' loop for entry n: `if let Ok(Some(project))`
\* pushes the project, every other outcome of load_project is dropped
ListStep(d, projects, n) ==
    LET r == LoadProject(d, n) IN
    IF r.ok /\ r.value # <<>> THEN Ok(Append(projects, r.value[1]))
    ELSE Ok(projects)

\* save_project_to_db: the placeholder, which writes nothing and returns Ok(())
SaveProjectToDbResult(p) == Ok("unit")

\* save_project_to_filesystem as one call; io says what the operating
\* system does to create_dir_all, to_string_pretty and fs::write
SaveProjectToFilesystem(d, p, io) ==
    LET m == CreateDirAll(d, ProjectPath(p), io.dir) IN
    IF ~m.result.ok THEN m
    ELSE IF io.json = "fail"
         THEN [disk |-> m.disk, result |-> Err(Database("Failed to serialize project"))]
    ELSE WriteFile(m.disk, ProjectPath(p), ToStringPretty(Metadata(p)), io.write)

\* Database::save_project as one call: the relational write, then the files
SaveProject(d, p, io) ==
    LET r == SaveProjectToDbResult(p) IN
    IF ~r.ok THEN [disk |-> d, result |-> r]
    ELSE SaveProjectToFilesystem(d, p, io)

RECURSIVE ListLoop(_, _, _)
\* list_projects' while loop over the entries in the order the directory gives
ListLoop(d, order, projects) ==
    IF order = <<>> THEN Ok(projects)
    ELSE LET r == ListStep(d, projects, Head(order)) IN
         IF ~r.ok THEN r ELSE ListLoop(d, Tail(order), r.value)

\* Database::list_projects as one call
ListProjects(d, order, io) ==
    IF io = "fail_readdir" THEN Err(Database("Failed to read projects directory"))
    ELSE IF io = "fail_next" THEN Err(Database("Failed to read directory entry"))
    ELSE ListLoop(d, order, <<>>)

(* ------------------------------ state --------------------------------- *)

VARIABLES
    disk,       \* the projects root: entry name -> entry
    lock,       \* AppState.db, the tokio Mutex: 0 when free, else the task holding the guard
    pc,         \* where each command task stands
    project,    \* create_project's local `project`, per task
    listing,    \* list_projects' locals per task: entries still to come, `projects`
    ret,        \* what each task's last command returned to the UI
    issued,     \* the uuids drawn so far
    dbWritten,  \* tasks whose running save_project has finished save_project_to_db
    hist,       \* history: projects returned by create_project, create calls made and
                \* failed, and the most create calls ever in flight together
    snap,       \* history, per call: the arguments of a create_project; what hist
                \* said when a get_projects took the lock
    ncalls,     \* number of commands invoked so far
    rt          \* storage round trip: the project handed to save_project and the last result

vars == <<disk, lock, pc, project, listing, ret, issued, dbWritten, hist, snap, ncalls, rt>>

\* inputs of the command specification
CmdNames == {<<34, 97>>}
CmdDescriptions == {<<>>}
Clock == {[secs |-> 1, nanos |-> 120000000]}

IoDir == {"ok", "fail"}
IoWrite == {"ok", "fail_open", "fail_partial"}

NoProject == ProjectNew(0, <<>>, <<>>, [secs |-> 0, nanos |-> 0])
NoListing == [entries |-> {}, projects |-> <<>>]
NoSnap ==
    [name |-> <<>>, description |-> <<>>,
     created |-> {}, invoked |-> 0, failed |-> 0, running |-> 0, peak |-> 0]
Pending == [cmd |-> "none", ok |-> FALSE]
NoRt ==
    [inputs |-> {}, op |-> "none", argp |-> NoProject, argn |-> <<>>, io |-> "ok",
     result |-> Ok("unit"), saved |-> {}, clean |-> TRUE, fresh |-> FALSE]

\* what an earlier run or the user may have left under the junk name
JunkEntries ==
    {Absent, PlainFile, Dir(NoFile),
     Dir([TextFile(NoDoc) EXCEPT !.closed = FALSE]),
     Dir([TextFile(NoDoc) EXCEPT !.fields = {"id"}]),
     Dir([TextFile(NoDoc) EXCEPT !.readable = FALSE])}

EmptyRoot == [n \in EntryNames |-> Absent]

Init ==
    /\ disk = EmptyRoot
    /\ lock = 0
    /\ pc = [t \in Tasks |-> "idle"]
    /\ project = [t \in Tasks |-> NoProject]
    /\ listing = [t \in Tasks |-> NoListing]
    /\ ret = [t \in Tasks |-> Pending]
    /\ issued = {}
    /\ dbWritten = {}
    /\ hist = [log |-> <<>>, invoked |-> 0, failed |-> 0, peak |-> 0]
    /\ snap = [t \in Tasks |-> NoSnap]
    /\ ncalls = 0
    /\ rt = NoRt

(* ------------------------------ ext-api ------------------------------- *)

CreatePcs == {"c_lock", "c_db", "c_mkdir", "c_json", "c_write"}
\* the positions inside save_project / list_projects
StoragePcs == {"c_db", "c_mkdir", "c_json", "c_write", "g_readdir", "g_next"}

Range(s) == {s[i] : i \in DOMAIN s}

\* the create_project calls invoked and not yet returned
Running == Cardinality({u \in Tasks : pc[u] \in CreatePcs})

\* a mutex that hands out its guard while another guard is alive
CanLockAlways(l) == TRUE

\* Mutex::lock().await completes only while no guard is alive
CanLock(l) == l = 0

\* a create_project that goes straight to the filesystem write
AfterLockNoDb(at) == IF at = "c_lock" THEN "c_mkdir" ELSE "g_readdir"

\* the first storage step once the guard is held: save_project starts with
\* save_project_to_db, list_projects with read_dir
AfterLock(at) == IF at = "c_lock" THEN "c_db" ELSE "g_readdir"

\* an error return that forgets the guard
FinishErrLeak(t, e, cmd) ==
    /\ ret' = [ret EXCEPT ![t] = [cmd |-> cmd, ok |-> FALSE, error |-> ToStringErr(e)]]
    /\ pc' = [pc EXCEPT ![t] = "idle"]
    /\ project' = [project EXCEPT ![t] = NoProject]
    /\ listing' = [listing EXCEPT ![t] = NoListing]
    /\ lock' = lock

\* `.map_err(|e| e.to_string())?` / the Err arm: the command returns the
\* display string; the guard `db` and the
\* locals are dropped on the way out
FinishErr(t, e, cmd) ==
    /\ ret' = [ret EXCEPT ![t] = [cmd |-> cmd, ok |-> FALSE, error |-> ToStringErr(e)]]
    /\ pc' = [pc EXCEPT ![t] = "idle"]
    /\ project' = [project EXCEPT ![t] = NoProject]
    /\ listing' = [listing EXCEPT ![t] = NoListing]
    /\ lock' = 0

\* the Ok return: the value goes to the UI, the guard is dropped
FinishOk(t, v, cmd) ==
    /\ ret' = [ret EXCEPT ![t] = [cmd |-> cmd, ok |-> TRUE, value |-> v]]
    /\ pc' = [pc EXCEPT ![t] = "idle"]
    /\ project' = [project EXCEPT ![t] = NoProject]
    /\ listing' = [listing EXCEPT ![t] = NoListing]
    /\ lock' = 0

\* a create_project that drops the error of save_project and returns the project
CreateFailedSwallowed(t, e) ==
    /\ FinishOk(t, project[t], "create")
    /\ hist' = [hist EXCEPT !.log = Append(@, project[t])]

\* create_project's `?` on save_project's Err
CreateFailed(t, e) ==
    /\ FinishErr(t, e, "create")
    /\ hist' = [hist EXCEPT !.failed = @ + 1]

\* commands::create_project -> AppState::create_project up to the lock:
\* Project::new(name, description)
CreateProjectCall(t) ==
    /\ pc[t] = "idle"
    /\ ncalls < MaxCalls
    /\ \E name \in CmdNames, description \in CmdDescriptions,
          id \in NewV4(issued), now \in Clock :
          /\ project' = [project EXCEPT ![t] = ProjectNew(id, name, description, now)]
          /\ issued' = issued \cup {id}
          /\ snap' = [snap EXCEPT ![t] =
                        [NoSnap EXCEPT !.name = name, !.description = description]]
    /\ pc' = [pc EXCEPT ![t] = "c_lock"]
    /\ ret' = [ret EXCEPT ![t] = Pending]
    /\ dbWritten' = dbWritten \ {t}
    /\ hist' = [hist EXCEPT !.invoked = @ + 1,
                            !.peak = IF Running + 1 > @ THEN Running + 1 ELSE @]
    /\ ncalls' = ncalls + 1
    /\ UNCHANGED <<disk, lock, listing, rt>>

\* commands::get_projects -> AppState::get_projects up to the lock
GetProjectsCall(t) ==
    /\ pc[t] = "idle"
    /\ ncalls < MaxCalls
    /\ pc' = [pc EXCEPT ![t] = "g_lock"]
    /\ ret' = [ret EXCEPT ![t] = Pending]
    /\ snap' = [snap EXCEPT ![t] = NoSnap]
    /\ ncalls' = ncalls + 1
    /\ UNCHANGED <<disk, lock, project, listing, issued, dbWritten, hist, rt>>

\* self.db.lock().await
Lock(t) ==
    /\ pc[t] \in {"c_lock", "g_lock"}
    /\ CanLock(lock)
    /\ lock' = t
    /\ pc' = [pc EXCEPT ![t] = AfterLock(pc[t])]
    /\ snap' = IF pc[t] = "g_lock"
               THEN [snap EXCEPT ![t] =
                        [NoSnap EXCEPT !.created = Range(hist.log),
                                       !.invoked = hist.invoked,
                                       !.failed = hist.failed,
                                       !.running = Running,
                                       !.peak = hist.peak]]
               ELSE snap
    /\ UNCHANGED <<disk, project, listing, ret, issued, dbWritten, hist, ncalls, rt>>

\* save_project, first sub-step: self.save_project_to_db(project).await?
SaveProjectToDb(t) ==
    /\ pc[t] = "c_db"
    /\ LET r == SaveProjectToDbResult(project[t]) IN
         IF r.ok
         THEN /\ pc' = [pc EXCEPT ![t] = "c_mkdir"]
              /\ dbWritten' = dbWritten \cup {t}
              /\ UNCHANGED <<lock, ret, hist, project, listing>>
         ELSE /\ CreateFailed(t, r.error)
              /\ UNCHANGED dbWritten
    /\ UNCHANGED <<disk, issued, snap, ncalls, rt>>

\* save_project_to_filesystem: fs::create_dir_all(&project_path)
MkDir(t) ==
    /\ pc[t] = "c_mkdir"
    /\ \E io \in IoDir :
         LET r == CreateDirAll(disk, ProjectPath(project[t]), io) IN
         /\ disk' = r.disk
         /\ IF r.result.ok
            THEN /\ pc' = [pc EXCEPT ![t] = "c_json"]
                 /\ UNCHANGED <<lock, ret, hist, project, listing>>
            ELSE CreateFailed(t, r.result.error)
    /\ UNCHANGED <<issued, dbWritten, snap, ncalls, rt>>

\* save_project_to_filesystem: json!{...} and serde_json::to_string_pretty,
\* evaluated before fs::write is called
Serialize(t) ==
    /\ pc[t] = "c_json"
    /\ \E io \in IoDir :
         IF io = "ok"
         THEN /\ pc' = [pc EXCEPT ![t] = "c_write"]
              /\ UNCHANGED <<lock, ret, hist, project, listing>>
         ELSE CreateFailed(t, Database("Failed to serialize project"))
    /\ UNCHANGED <<disk, issued, dbWritten, snap, ncalls, rt>>

\* save_project_to_filesystem: fs::write(&metadata_path, text); on Ok
\* save_project returns Ok(()) and create_project returns Ok(project)
Write(t) ==
    /\ pc[t] = "c_write"
    /\ \E io \in IoWrite :
         LET r == WriteFile(disk, ProjectPath(project[t]),
                            ToStringPretty(Metadata(project[t])), io) IN
         /\ disk' = r.disk
         /\ IF r.result.ok
            THEN /\ FinishOk(t, project[t], "create")
                 /\ hist' = [hist EXCEPT !.log = Append(@, project[t])]
            ELSE CreateFailed(t, r.result.error)
    /\ UNCHANGED <<issued, dbWritten, snap, ncalls, rt>>

\* list_projects: fs::read_dir(&self.projects_dir)
ReadDirStep(t) ==
    /\ pc[t] = "g_readdir"
    /\ \E io \in IoDir :
         IF io = "ok"
         THEN /\ listing' = [listing EXCEPT ![t] =
                               [entries |-> ReadDir(disk), projects |-> <<>>]]
              /\ pc' = [pc EXCEPT ![t] = "g_next"]
              /\ UNCHANGED <<lock, ret, project>>
         ELSE FinishErr(t, Database("Failed to read projects directory"), "get")
    /\ UNCHANGED <<disk, issued, dbWritten, hist, snap, ncalls, rt>>

\* list_projects: one entries.next_entry().await? and the loop body, or the
\* end of the directory and Ok(projects).  The order of entries is the
\* operating system's.
NextEntry(t) ==
    /\ pc[t] = "g_next"
    /\ \E io \in IoDir :
         IF io = "fail"
         THEN FinishErr(t, Database("Failed to read directory entry"), "get")
         ELSE IF listing[t].entries = {}
         THEN FinishOk(t, listing[t].projects, "get")
         ELSE \E n \in listing[t].entries :
              LET r == ListStep(disk, listing[t].projects, n) IN
              IF r.ok
              THEN /\ listing' = [listing EXCEPT ![t] =
                                    [entries |-> listing[t].entries \ {n},
                                     projects |-> r.value]]
                   /\ UNCHANGED <<lock, pc, ret, project>>
              ELSE FinishErr(t, r.error, "get")
    /\ UNCHANGED <<disk, issued, dbWritten, hist, snap, ncalls, rt>>

Step(t) == Lock(t) \/ SaveProjectToDb(t) \/ MkDir(t) \/ Serialize(t) \/ Write(t)
              \/ ReadDirStep(t) \/ NextEntry(t)

Next ==
    \/ \E t \in Tasks : CreateProjectCall(t)
    \/ \E t \in Tasks : GetProjectsCall(t)
    \/ \E t \in Tasks : Lock(t)
    \/ \E t \in Tasks : SaveProjectToDb(t)
    \/ \E t \in Tasks : MkDir(t)
    \/ \E t \in Tasks : Serialize(t)
    \/ \E t \in Tasks : Write(t)
    \/ \E t \in Tasks : ReadDirStep(t)
    \/ \E t \in Tasks : NextEntry(t)

Spec == Init /\ [][Next]_vars

\* the runtime keeps polling every task that can make progress
LiveSpec == Spec /\ \A t \in Tasks : WF_vars(Step(t))


(* ------------------- the storage layer called directly ---------------- *)

\* every text of at most n characters
Texts(n) == UNION {[1..k -> Chars] : k \in 0..n}

\* clock readings with no fraction, milli-, micro- and nanosecond fractions
RtTimes ==
    {[secs |-> 1, nanos |-> 0], [secs |-> 1, nanos |-> 120000000],
     [secs |-> 1, nanos |-> 120003000], [secs |-> 2, nanos |-> 120003004]}

\* the Project values handed to save_project in the round-trip specification
RtStamps ==
    {<<c, c>> : c \in RtTimes}
    \cup {<<c, [secs |-> 2, nanos |-> 120003004]>> : c \in RtTimes}

RichProjects ==
    {[id |-> id, name |-> name, description |-> <<92, 34>>,
      created_at |-> cu[1], updated_at |-> cu[2]] :
        id \in Uuids, name \in Texts(MaxTextLen), cu \in RtStamps}

\* one plain project per uuid, for the listing specification
PlainProjects ==
    {ProjectNew(id, <<97>>, <<34>>, [secs |-> 1, nanos |-> 120000000]) : id \in Uuids}

\* names load_project is asked for: every entry name and a uuid never used ("ff")
LoadArgs == EntryNames \cup {<<102, 102>>}

IoList == {"ok", "fail_readdir", "fail_next"}

\* what can happen to one save_project: all well, or the first failure
SaveIos ==
    {[dir |-> "ok", json |-> "ok", write |-> w] : w \in IoWrite}
    \cup {[dir |-> "fail", json |-> "ok", write |-> "ok"],
          [dir |-> "ok", json |-> "fail", write |-> "ok"]}

\* the orders in which a directory can hand out the names in S
Orders(S) ==
    {f \in [1..Cardinality(S) -> S] : \A i, j \in 1..Cardinality(S) : f[i] = f[j] => i = j}

\* db.save_project(&p).await
StSave ==
    \E p \in rt.inputs, io \in SaveIos :
        LET r == SaveProject(disk, p, io) IN
        /\ disk' = r.disk
        /\ rt' = [rt EXCEPT !.op = "save", !.argp = p, !.io = "ok",
                            !.result = r.result,
                            !.fresh = r.result.ok,
                            !.clean = @ /\ r.result.ok
                                        /\ p.id \notin {q.id : q \in rt.saved},
                            !.saved = IF r.result.ok THEN @ \cup {p} ELSE @]
        /\ UNCHANGED <<lock, pc, project, listing, ret, issued, dbWritten, hist, snap, ncalls>>

\* db.load_project(n).await
StLoad ==
    \E n \in LoadArgs :
        /\ rt' = [rt EXCEPT !.op = "load", !.argn = n, !.io = "ok",
                            !.result = LoadProject(disk, n)]
        /\ UNCHANGED <<disk, lock, pc, project, listing, ret, issued, dbWritten, hist, snap, ncalls>>

\* db.list_projects().await
StList ==
    \E io \in IoList :
        \E order \in IF io = "ok" THEN Orders(ReadDir(disk)) ELSE {<<>>} :
        /\ rt' = [rt EXCEPT !.op = "list", !.io = io,
                            !.result = ListProjects(disk, order, io)]
        /\ UNCHANGED <<disk, lock, pc, project, listing, ret, issued, dbWritten, hist, snap, ncalls>>

StorageNext == StSave \/ StLoad \/ StList

IdleTasks ==
    /\ lock = 0
    /\ pc = [t \in Tasks |-> "idle"]
    /\ project = [t \in Tasks |-> NoProject]
    /\ listing = [t \in Tasks |-> NoListing]
    /\ ret = [t \in Tasks |-> Pending]
    /\ issued = {}
    /\ dbWritten = {}
    /\ hist = [log |-> <<>>, invoked |-> 0, failed |-> 0, peak |-> 0]
    /\ snap = [t \in Tasks |-> NoSnap]
    /\ ncalls = 0

\* a fresh store and one Project value, any of RichProjects
RoundTripInit ==
    /\ IdleTasks
    /\ disk = EmptyRoot
    /\ \E p \in RichProjects : rt = [NoRt EXCEPT !.inputs = {p}]

RoundTripNext == StSave \/ StLoad

RoundTripSpec == RoundTripInit /\ [][RoundTripNext]_vars

\* a projects root holding at most one foreign entry, and the plain projects
StoreInit ==
    /\ IdleTasks
    /\ \E j \in JunkEntries : disk = [EmptyRoot EXCEPT ![JunkName] = j]
    /\ rt = [NoRt EXCEPT !.inputs = PlainProjects]

StoreSpec == StoreInit /\ [][StorageNext]_vars


(* ------------------------------ properties ---------------------------- *)

Returned(t, cmd) == ret[t].cmd = cmd
ReturnedOk(t, cmd) == ret[t].cmd = cmd /\ ret[t].ok
ReturnedErr(t) == ret[t].cmd # "none" /\ ~ret[t].ok

NoRepeats(s) == \A i, j \in DOMAIN s : i # j => s[i] # s[j]
NoRepeatedIds(s) == \A i, j \in DOMAIN s : i # j => s[i].id # s[j].id

\* C1: when every create_project call invoked so far, concurrent or not, had
\* returned successfully by the time a get_projects took the lock, that
\* get_projects returns as many projects as there were calls, pairwise
\* distinct and with pairwise distinct ids.
C1_ConcurrentCreatesAllListed ==
    \A t \in Tasks :
        (ReturnedOk(t, "get") /\ snap[t].failed = 0 /\ snap[t].running = 0)
        => /\ Len(ret[t].value) = snap[t].invoked
           /\ NoRepeats(ret[t].value)
           /\ NoRepeatedIds(ret[t].value)

\* two create_project calls were in flight together, both succeeded, and a
\* later get_projects returned two projects
C1_Witness ==
    \E t \in Tasks :
        /\ ReturnedOk(t, "get")
        /\ snap[t].failed = 0 /\ snap[t].running = 0
        /\ snap[t].peak >= 2
        /\ snap[t].invoked >= 2
        /\ Len(ret[t].value) = snap[t].invoked

\* C2: at most one task is inside a storage operation (save_project or
\* list_projects, at any of its sub-steps), and that task holds the lock.
C2_OneStorageOperation ==
    /\ Cardinality({t \in Tasks : pc[t] \in StoragePcs}) <= 1
    /\ \A t \in Tasks : pc[t] \in StoragePcs => lock = t

\* a task is about to write project.json while another waits for the lock
C2_Witness ==
    \E t, u \in Tasks :
        /\ pc[t] = "c_write" /\ lock = t
        /\ pc[u] \in {"c_lock", "g_lock"}

\* C6: a project returned by create_project carries the name and the
\* description of the call verbatim; the projects returned so far have
\* pairwise distinct ids; no two project records on disk have the same id.
C6_VerbatimAndUniqueIds ==
    /\ \A t \in Tasks :
          ReturnedOk(t, "create")
          => /\ ret[t].value.name = snap[t].name
             /\ ret[t].value.description = snap[t].description
    /\ NoRepeatedIds(hist.log)
    /\ \A m, n \in EntryNames :
          (/\ m # n
           /\ LoadProject(disk, m).ok /\ LoadProject(disk, m).value # <<>>
           /\ LoadProject(disk, n).ok /\ LoadProject(disk, n).value # <<>>)
          => LoadProject(disk, m).value[1].id # LoadProject(disk, n).value[1].id

\* two projects have been created and both records are on disk
C6_Witness ==
    /\ Len(hist.log) >= 2
    /\ \E t \in Tasks : ReturnedOk(t, "create") /\ ret[t].value.name # ret[t].value.description
    /\ \A i \in DOMAIN hist.log :
          LoadProject(disk, UuidToString(hist.log[i].id)) = Ok(<<hist.log[i]>>)

FsPcs == {"c_mkdir", "c_json", "c_write"}

\* C7: the filesystem write of save_project begins only after the
\* relational write has completed: a task at a filesystem sub-step, and any
\* call whose project directory exists, has finished save_project_to_db;
\* and a create_project that returned a project has done both sub-steps, so
\* its project.json is on disk.
C7_DbThenFilesystem ==
    /\ \A t \in Tasks : pc[t] \in FsPcs => t \in dbWritten
    /\ \A t \in Tasks :
          (pc[t] \in CreatePcs /\ EntryAt(disk, ProjectPath(project[t])).kind = "dir")
          => t \in dbWritten
    /\ \A t \in Tasks :
          ReturnedOk(t, "create")
          => /\ t \in dbWritten
             /\ LoadProject(disk, ProjectPath(ret[t].value)) = Ok(<<ret[t].value>>)

\* a save_project has created its directory, after the relational write
C7_Witness ==
    \E t \in Tasks :
        /\ pc[t] = "c_write"
        /\ t \in dbWritten
        /\ EntryAt(disk, ProjectPath(project[t])).kind = "dir"

StorageMessages ==
    {"Failed to create project directory", "Failed to serialize project",
     "Failed to write project file", "Failed to read project file",
     "Failed to parse project", "Failed to read projects directory",
     "Failed to read directory entry"}

\* C8: an error returned by create_project or get_projects is the display
\* string of a Database error of the storage layer, and a create_project
\* returns a Project only if its save succeeded (the record is on disk):
\* every create_project call is counted once, as failed, returned or running.
\* A project.json that load_project cannot parse yields the Database variant.
C8_ErrorsAreDatabaseStrings ==
    /\ \A t \in Tasks :
          ReturnedErr(t)
          => /\ ret[t].error[1] = DisplayPrefix("Database")
             /\ ret[t].error[2] \in StorageMessages
    /\ \A i \in DOMAIN hist.log :
          LoadProject(disk, ProjectPath(hist.log[i])) = Ok(<<hist.log[i]>>)
    /\ hist.failed + Len(hist.log) + Running = hist.invoked
    /\ \A n \in EntryNames :
          ~LoadProject(disk, n).ok => LoadProject(disk, n).error.variant = "Database"

\* a create_project and a get_projects have both returned an error string
C8_Witness ==
    \E t, u \in Tasks :
        /\ Returned(t, "create") /\ ~ret[t].ok
        /\ Returned(u, "get") /\ ~ret[u].ok

\* C9: the lock is held only by a task inside a storage operation, and every
\* command that has been invoked returns.
C9_EveryCommandReturns ==
    /\ [](lock # 0 => pc[lock] \in StoragePcs)
    /\ \A t \in Tasks : (pc[t] # "idle") ~> (pc[t] = "idle")

\* after one command returned an error another task holds the lock
C9_Witness ==
    \E t, u \in Tasks : t # u /\ ReturnedErr(t) /\ lock = u

GetPcs == {"g_lock", "g_readdir", "g_next"}

\* a step of get_projects by task t
GetStep(t) == pc[t] \in GetPcs /\ (pc'[t] # pc[t] \/ listing'[t] # listing[t])

\* C10: a get_projects returns exactly the projects whose create_project had
\* returned success when it took the lock, whatever failed create_project
\* calls left on disk, and no step of get_projects changes the disk.
C10_FailedCreateNeverVisible ==
    /\ [](\A t \in Tasks :
            ReturnedOk(t, "get")
            => /\ Range(ret[t].value) = snap[t].created
               /\ Len(ret[t].value) = Cardinality(snap[t].created))
    /\ [][(\E t \in Tasks : GetStep(t)) => disk' = disk]_vars

\* a create_project failed leaving an incomplete project.json, another
\* succeeded, and a get_projects returned after both
C10_Witness ==
    \E t \in Tasks :
        /\ ReturnedOk(t, "get")
        /\ snap[t].failed >= 1
        /\ Len(ret[t].value) >= 1
        /\ \E n \in EntryNames : disk[n].json.exists /\ ~disk[n].json.closed

(* --------------------- properties of the storage layer ---------------- *)

HasChar(s, c) == \E i \in DOMAIN s : s[i] = c

\* C3: load_project asked for the id of the project that save_project has
\* just saved returns Some(q) with q equal to it in all five fields.
C3_RoundTrip ==
    (rt.op = "load" /\ rt.fresh /\ rt.argn = UuidToString(rt.argp.id))
    => /\ rt.result.ok
       /\ Len(rt.result.value) = 1
       /\ rt.result.value[1].id = rt.argp.id
       /\ rt.result.value[1].name = rt.argp.name
       /\ rt.result.value[1].description = rt.argp.description
       /\ rt.result.value[1].created_at = rt.argp.created_at
       /\ rt.result.value[1].updated_at = rt.argp.updated_at

\* a project with quote and backslash in its name and nanosecond timestamps
\* that differ has been saved and loaded
C3_Witness ==
    /\ rt.op = "load" /\ rt.fresh /\ rt.argn = UuidToString(rt.argp.id)
    /\ HasChar(rt.argp.name, 34) /\ HasChar(rt.argp.name, 92)
    /\ rt.argp.created_at.nanos % 1000000 # 0
    /\ rt.argp.created_at # rt.argp.updated_at
    /\ rt.result = Ok(<<rt.argp>>)

\* C4: when every save_project so far succeeded, with distinct ids,
\* list_projects returns exactly the saved projects, each once; and
\* list_projects returns an error only when reading the directory itself
\* failed, whatever entries without a loadable project.json the root holds.
C4_ListIsBestEffort ==
    rt.op = "list"
    => /\ (rt.result.ok /\ rt.clean)
          => /\ Range(rt.result.value) = rt.saved
             /\ Len(rt.result.value) = Cardinality(rt.saved)
       /\ ~rt.result.ok => rt.io # "ok"

\* two projects saved, a foreign entry with a malformed project.json, listed
C4_Witness ==
    /\ rt.op = "list" /\ rt.io = "ok" /\ rt.clean
    /\ Cardinality(rt.saved) >= 2
    /\ disk[JunkName].json.exists /\ ~ParsesAsProject(disk[JunkName].json)
    /\ rt.result.ok /\ Len(rt.result.value) = Cardinality(rt.saved)

NoProjectJson(d, n) == ~(EntryAt(d, n).kind = "dir" /\ EntryAt(d, n).json.exists)

\* C5: load_project for a name under which there is no project.json returns
\* Ok(None), and no load_project returns the NotFound variant.
C5_LoadMissingIsNone ==
    rt.op = "load"
    => /\ NoProjectJson(disk, rt.argn) => (rt.result.ok /\ rt.result.value = <<>>)
       /\ ~rt.result.ok => rt.result.error.variant # "NotFound"

\* the root holds a saved project and load_project was asked for an id that
\* has no subdirectory
C5_Witness ==
    /\ rt.op = "load"
    /\ rt.saved # {}
    /\ EntryAt(disk, rt.argn).kind = "absent"
    /\ UuidParses(rt.argn)
    /\ rt.result.ok /\ rt.result.value = <<>>

====
